---- MODULE Spec2Model ----
(***************************************************************************)
(* Model of the Square booking -> iCloud calendar webhook (src/index.js).  *)
(* Text is modelled as a sequence of one-character strings so that case    *)
(* folding, prefix and substring tests are computed, not assumed.          *)
(***************************************************************************)
EXTENDS Integers, Sequences, FiniteSets, TLC

\* ------------------------------------------------------------------ bounds
MaxNotifs == 2      \* notifications delivered in one behaviour
MaxTicks == 2       \* clock advances in one behaviour
MaxChanges == 1     \* changes made to bookings by the booking service
TickMs == 600000    \* milliseconds by which one clock advance moves Date.now()

Handlers == {"h1", "h2"}   \* webhook invocations that may be in flight together

\* -------------------------------------------------------------------- text
LowerLetters == <<"a","b","c","d","e","f","g","h","i","j","k","l","m",
                  "n","o","p","q","r","s","t","u","v","w","x","y","z">>
UpperLetters == <<"A","B","C","D","E","F","G","H","I","J","K","L","M",
                  "N","O","P","Q","R","S","T","U","V","W","X","Y","Z">>

\* the case maps of the letters, as tables
UpperOf == [c \in {LowerLetters[i] : i \in 1..26} |->
               UpperLetters[CHOOSE i \in 1..26 : LowerLetters[i] = c]]
LowerOf == [c \in {UpperLetters[i] : i \in 1..26} |->
               LowerLetters[CHOOSE i \in 1..26 : UpperLetters[i] = c]]

UpperChar(c) == IF c \in DOMAIN UpperOf THEN UpperOf[c] ELSE c
LowerChar(c) == IF c \in DOMAIN LowerOf THEN LowerOf[c] ELSE c

toUpperCase(s) == [i \in 1..Len(s) |-> UpperChar(s[i])]
toLowerCase(s) == [i \in 1..Len(s) |-> LowerChar(s[i])]

includes(s, sub) ==
    \E i \in 0..(Len(s) - Len(sub)) : SubSeq(s, i + 1, i + Len(sub)) = sub

startsWith(s, pre) ==
    Len(s) >= Len(pre) /\ SubSeq(s, 1, Len(pre)) = pre

\* A JS value that is undefined, null or '' is modelled by the empty text:
\* the code only ever tests these fields for truthiness.
Absent == <<>>
Truthy(v) == v # Absent
\* a || b
OrElse(a, b) == IF Truthy(a) THEN a ELSE b

T_true == <<"t","r","u","e">>
T_TRUE == <<"T","R","U","E">>
T_false == <<"f","a","l","s","e">>
T_unknown == <<"u","n","k","n","o","w","n">>
T_CANCEL == <<"C","A","N","C","E","L">>
T_NO_SHOW == <<"N","O","_","S","H","O","W">>
T_TEST == <<"T","E","S","T">>
T_booking_dot == <<"b","o","o","k","i","n","g",".">>
T_created == <<"c","r","e","a","t","e","d">>
T_updated == <<"u","p","d","a","t","e","d">>
T_canceled == <<"c","a","n","c","e","l","e","d">>
T_cancelled == <<"c","a","n","c","e","l","l","e","d">>
T_booking_created == T_booking_dot \o T_created
T_booking_updated == T_booking_dot \o T_updated
T_booking_canceled == T_booking_dot \o T_canceled
T_booking_cancelled == T_booking_dot \o T_cancelled

\* a test of the event kind that does not fold the case
RecognizedKind_CaseSensitive(eventType) ==
    eventType \in
        {T_booking_created, T_booking_updated, T_booking_canceled, T_booking_cancelled}

\* /^booking\.(created|updated|canceled|cancelled)$/i.test(eventType)
RecognizedKind(eventType) ==
    toLowerCase(eventType) \in
        {T_booking_created, T_booking_updated, T_booking_canceled, T_booking_cancelled}

\* ------------------------------------------------------------------ inputs
B1 == <<"B","1">>
TEST1 == <<"T","E","S","T","1">>
E1 == <<"e","v","1">>

T_Booking_Cancelled ==
    <<"B","o","o","k","i","n","g",".","C","a","n","c","e","l","l","e","d">>
T_BOOKING_CREATED ==
    <<"B","O","O","K","I","N","G",".","C","R","E","A","T","E","D">>
T_invoice_paid == <<"i","n","v","o","i","c","e",".","p","a","i","d">>

EventTypes ==
    {T_booking_created, T_booking_updated, T_Booking_Cancelled, T_BOOKING_CREATED,
     T_invoice_paid}
BookingIds == {B1}
EventIds == {Absent, E1}

Body(t, et, e, id, b, d) ==
    [type |-> t, event_type |-> et, event_id |-> e, id |-> id,
     booking_id |-> b, data_id |-> d]

\* Request bodies.  Every event kind for booking B1 without an event id; then
\* bodies that carry the event id E1: a processable one, ones the handler
\* ignores, and one that uses the alternative payload paths.
Bodies ==
    { Body(t, Absent, Absent, Absent, B1, Absent) : t \in EventTypes }
    \cup
    { Body(T_booking_created, Absent, E1, Absent, B1, Absent),
      Body(T_booking_created, Absent, E1, Absent, Absent, Absent),
      Body(T_booking_created, Absent, E1, Absent, TEST1, Absent),
      Body(T_invoice_paid, Absent, E1, Absent, B1, Absent),
      Body(Absent, T_booking_updated, Absent, E1, Absent, B1),
      Body(Absent, Absent, Absent, Absent, Absent, B1) }

\* process.env as read by the handler
EnvConfigs ==
    { [smtp |-> TRUE,  SEND_EMAIL_ON_UPDATED |-> Absent, SEND_EMAIL_ON_CANCELED |-> Absent],
      [smtp |-> FALSE, SEND_EMAIL_ON_UPDATED |-> T_TRUE, SEND_EMAIL_ON_CANCELED |-> T_false] }

\* Booking records held by the booking service
T_ACCEPTED == <<"A","C","C","E","P","T","E","D">>
T_CANCELLED_BY_CUSTOMER ==
    <<"C","A","N","C","E","L","L","E","D","_","B","Y","_","C","U","S","T","O","M","E","R">>
T_stamp == <<"2","0","2","5">>
T_reason == <<"r","a","i","n">>
C1id == <<"C","1">>

RawBooking(st, bst, ca, cla, cr, cust) ==
    [status |-> st, booking_status |-> bst, canceled_at |-> ca, cancelled_at |-> cla,
     cancellation_reason |-> cr, customer_id |-> cust]

BookingShapes ==
    { RawBooking(T_ACCEPTED, Absent, Absent, Absent, Absent, C1id),
      RawBooking(T_ACCEPTED, Absent, Absent, Absent, Absent, Absent),
      RawBooking(T_CANCELLED_BY_CUSTOMER, Absent, T_stamp, Absent, Absent, C1id) }

InitialShape == RawBooking(T_ACCEPTED, Absent, Absent, Absent, Absent, C1id)

\* The customer the customer service holds
TheCustomer ==
    [given_name |-> <<"Ann">>, family_name |-> <<"Lee">>,
     address |-> <<"1 Main St", ", ", "Springfield">>, phone_number |-> <<"555-0100">>]


\* ------------------------------------------------------------------- state
VARIABLES
    hs,         \* per webhook invocation: position and locals of the async handler
    seen,       \* the de-dupe map, eventId -> expiresAt
    now,        \* Date.now()
    env,        \* process.env
    bookings,   \* the booking service: bookingId -> record and revision
    store,      \* the remote calendar: filename -> document
    notifs,     \* notifications delivered so far
    changes,    \* booking changes so far
    lastDeliv,  \* history: eventId -> time of its latest delivery
    lastAcc,    \* history: eventId -> time of its latest delivery that passed the gate
    escIn,      \* the text handed to icsEscape
    escOut      \* what icsEscape returned for it (done = FALSE before the call)

vars == <<hs, seen, now, env, bookings, store, notifs, changes, lastDeliv, lastAcc,
          escIn, escOut>>

Never == 0 - 1

NoDoc == [uid |-> Absent]

IdleHandler ==
    [pc |-> "idle",
     eventType |-> Absent, eventId |-> Absent, bookingId |-> Absent,
     recvAt |-> Never, gate |-> "none", prevDeliv |-> Never, prevAcc |-> Never,
     shouldEmail |-> FALSE, cancelEmail |-> FALSE,
     cls |-> "none", routedRev |-> Never, bookingRev |-> Never, projected |-> "none",
     customer |-> "none", refetch |-> "none",
     uid |-> Absent, doc |-> NoDoc,
     fetchB |-> 0, fetchC |-> 0, mailCalls |-> 0, mailSent |-> 0,
     upsertCalls |-> 0, deleteCalls |-> 0, puts |-> 0, dels |-> 0,
     wrote |-> "none", status |-> 0, err |-> "none", responses |-> <<>>]

\* ---------------------------------------------------------------- de-dupe
DEDUPE_TTL_MS == 10 * 60 * 1000

\* a purge that also drops the entry expiring at this very millisecond
Purge_Inclusive(s, t) == [k \in {k \in DOMAIN s : ~(s[k] <= t)} |-> s[k]]

\* for (const [k, v] of seen) if (v < now) seen.delete(k);
Purge(s, t) == [k \in {k \in DOMAIN s : ~(s[k] < t)} |-> s[k]]

\* the value isDuplicate returns
isDuplicate(s, eventId, t) ==
    IF ~Truthy(eventId) THEN FALSE ELSE eventId \in DOMAIN Purge(s, t)

\* a table where a duplicate hit restarts the entry's window
SeenAfter_Refresh(s, eventId, t) ==
    IF ~Truthy(eventId) THEN s
    ELSE [k \in DOMAIN Purge(s, t) \cup {eventId} |->
             IF k = eventId THEN t + DEDUPE_TTL_MS ELSE Purge(s, t)[k]]

\* the map isDuplicate leaves behind
SeenAfter(s, eventId, t) ==
    IF ~Truthy(eventId) THEN s
    ELSE IF eventId \in DOMAIN Purge(s, t) THEN Purge(s, t)
    ELSE [k \in DOMAIN Purge(s, t) \cup {eventId} |->
             IF k = eventId THEN t + DEDUPE_TTL_MS ELSE Purge(s, t)[k]]

\* ------------------------------------------------------------ ICS and uid
T_at_lilsicecream == <<"@","l","i","l","s","i","c","e","c","r","e","a","m">>
T_dot_ics == <<".","i","c","s">>

\* a uid that keeps only the first character of the booking id
UidOf_Truncated(bookingId) == SubSeq(bookingId, 1, 1) \o T_at_lilsicecream

UidOf(bookingId) == bookingId \o T_at_lilsicecream
FilenameOf(uid) == uid \o T_dot_ics

\* `${first} ${last}`.trim()
RECURSIVE TrimLeft(_)
TrimLeft(w) == IF w # <<>> /\ Head(w) = " " THEN TrimLeft(Tail(w)) ELSE w
RECURSIVE TrimRight(_)
TrimRight(w) ==
    IF w # <<>> /\ w[Len(w)] = " " THEN TrimRight(SubSeq(w, 1, Len(w) - 1)) ELSE w
Trim(w) == TrimRight(TrimLeft(w))

DefaultDuration == 60

buildICS(uid, summary, location, description, start, end, t) ==
    [uid |-> uid, dtstamp |-> t, dtstart |-> start, dtend |-> end,
     summary |-> summary, location |-> location, description |-> description]

\* The document processBooking builds from a booking snapshot and the customer
\* fields it got (first, last, addressLine, phone), at time t.
ProjectICS(bookingId, start, first, last, addressLine, phone, t) ==
    LET fullName == OrElse(Trim(first \o <<" ">> \o last), <<"Customer">>)
        summary == <<"Truck Event - ">> \o fullName
        description ==
            <<"Booking ID: ", bookingId>> \o
            (IF Truthy(phone) THEN <<"Phone: ">> \o phone ELSE <<>>)
    IN  buildICS(UidOf(bookingId), summary, addressLine, description,
                 start, start + DefaultDuration, t)

\* ------------------------------------------------------------------ classifier
\* a classifier that forgets the no-show marker
isCancelled_NoNoShow(booking) ==
    LET statusRaw == OrElse(OrElse(booking.status, booking.booking_status), Absent)
        status == toUpperCase(statusRaw)
        canceledAt == OrElse(booking.canceled_at, booking.cancelled_at)
        cancelReason == booking.cancellation_reason
    IN  \/ includes(status, T_CANCEL)
        \/ Truthy(canceledAt)
        \/ Truthy(cancelReason)

\* processBookingRouter's isCancelled
isCancelled(booking) ==
    LET statusRaw == OrElse(OrElse(booking.status, booking.booking_status), Absent)
        status == toUpperCase(statusRaw)
        canceledAt == OrElse(booking.canceled_at, booking.cancelled_at)
        cancelReason == booking.cancellation_reason
    IN  \/ includes(status, T_CANCEL)
        \/ status = T_NO_SHOW
        \/ Truthy(canceledAt)
        \/ Truthy(cancelReason)

\* history: how isCancelled reads a snapshot of the booking
Classification(booking) == IF isCancelled(booking) THEN "cancelled" ELSE "active"

\* -------------------------------------------------------------- responses
\* res.sendStatus(200) on the normal path
Ack(r) == [r EXCEPT !.pc = "done", !.responses = Append(@, 200)]

\* a catch block that surfaces the failure to the sender
Catch_Status500(r, where) ==
    [r EXCEPT !.pc = "done", !.err = where, !.responses = Append(@, 500)]

\* the handler's catch block: log, then res.sendStatus(200)
Catch(r, where) ==
    [r EXCEPT !.pc = "done", !.err = where, !.responses = Append(@, 200)]

\* ------------------------------------------------------- processBooking
\* upsertIcloudEvent is entered: calendar discovery is awaited first
StartUpsert(r) == [r EXCEPT !.pc = "upsert_discover", !.upsertCalls = @ + 1]

\* deleteIcloudEvent is entered
StartDelete(r) == [r EXCEPT !.pc = "delete_discover", !.deleteCalls = @ + 1]

\* sendIcsEmail returns at once when the SMTP configuration is missing
smtpConfigured(e) == e.smtp

\* processBooking from the end of the customer lookup to its next await
AfterCustomer(r, e, start, first, last, addressLine, phone, t) ==
    LET r1 == [r EXCEPT !.uid = UidOf(r.bookingId),
                        !.doc = ProjectICS(r.bookingId, start, first, last,
                                           addressLine, phone, t)]
    IN  IF r1.shouldEmail
        THEN IF smtpConfigured(e)
             THEN [r1 EXCEPT !.pc = "booking_email", !.mailCalls = @ + 1]
             ELSE StartUpsert([r1 EXCEPT !.mailCalls = @ + 1])
        ELSE StartUpsert(r1)

\* processCancellation from the end of the enrichment to its next await
AfterEnrichment(r, e) ==
    IF r.cancelEmail
    THEN IF smtpConfigured(e)
         THEN [r EXCEPT !.pc = "cancel_email", !.mailCalls = @ + 1]
         ELSE StartDelete([r EXCEPT !.mailCalls = @ + 1])
    ELSE StartDelete(r)

\* shouldEmail as the webhook handler computes it
ShouldEmail(eventType, e) ==
    \/ eventType = T_booking_created
    \/ /\ eventType = T_booking_updated
       /\ toLowerCase(OrElse(e.SEND_EMAIL_ON_UPDATED, T_false)) = T_true

\* shouldEmail as processBookingRouter computes it for processCancellation
CancelShouldEmail(e) ==
    toLowerCase(OrElse(e.SEND_EMAIL_ON_CANCELED, T_true)) = T_true

\* ----------------------------------------------------------------- actions
EmptyMap == [k \in {} |-> 0]

\* icsEscape has not been called
NotEscaped == [done |-> FALSE, out |-> <<>>]

Init ==
    /\ hs = [h \in Handlers |-> IdleHandler]
    /\ seen = EmptyMap
    /\ now = 0
    /\ env \in EnvConfigs
    /\ bookings = [b \in BookingIds |-> [shape |-> InitialShape, rev |-> 0]]
    /\ store = EmptyMap
    /\ notifs = 0
    /\ changes = 0
    /\ lastDeliv = [e \in EventIds \ {Absent} |-> Never]
    /\ lastAcc = [e \in EventIds \ {Absent} |-> Never]
    /\ escIn = <<>>
    /\ escOut = NotEscaped

\* app.post('/webhooks/square'): the synchronous part of the handler, up to
\* its first await (the booking fetch of processBookingRouter) or its answer.
Received(r, body, e, s, t, pd, pa) ==
    LET eventType == OrElse(OrElse(body.type, body.event_type), T_unknown)
        eventId == OrElse(body.event_id, body.id)
        bookingId == OrElse(body.booking_id, body.data_id)
        r0 == [IdleHandler EXCEPT !.eventType = eventType,
                                  !.eventId = eventId, !.bookingId = bookingId,
                                  !.recvAt = t, !.prevDeliv = pd, !.prevAcc = pa]
    IN  IF isDuplicate(s, eventId, t)
        THEN Ack([r0 EXCEPT !.gate = "dup"])
        ELSE IF ~Truthy(bookingId) \/ startsWith(bookingId, T_TEST)
        THEN Ack([r0 EXCEPT !.gate = "pass"])
        ELSE IF RecognizedKind(eventType)
        THEN [r0 EXCEPT !.gate = "pass", !.pc = "router_fetch", !.fetchB = 1,
                        !.shouldEmail = ShouldEmail(eventType, e)]
        ELSE Ack([r0 EXCEPT !.gate = "pass"])

\* an intake that records the event id only once it starts processing
Deliver_RecordsWhenProcessed(h, body) ==
    /\ hs[h].pc \in {"idle", "done"}
    /\ LET eventId == OrElse(body.event_id, body.id)
           pd == IF Truthy(eventId) THEN lastDeliv[eventId] ELSE Never
           pa == IF Truthy(eventId) THEN lastAcc[eventId] ELSE Never
           r == Received(hs[h], body, env, seen, now, pd, pa)
       IN  /\ hs' = [hs EXCEPT ![h] = r]
           /\ seen' = IF r.pc = "router_fetch" THEN SeenAfter(seen, eventId, now)
                      ELSE seen
           /\ lastDeliv' = IF Truthy(eventId)
                           THEN [lastDeliv EXCEPT ![eventId] = now] ELSE lastDeliv
           /\ lastAcc' = IF Truthy(eventId) /\ ~isDuplicate(seen, eventId, now)
                         THEN [lastAcc EXCEPT ![eventId] = now] ELSE lastAcc
    /\ notifs' = notifs + 1
    /\ UNCHANGED <<now, env, bookings, store, changes, escIn, escOut>>

Deliver(h, body) ==
    /\ hs[h].pc \in {"idle", "done"}
    /\ LET eventId == OrElse(body.event_id, body.id)
           pd == IF Truthy(eventId) THEN lastDeliv[eventId] ELSE Never
           pa == IF Truthy(eventId) THEN lastAcc[eventId] ELSE Never
       IN  /\ hs' = [hs EXCEPT ![h] = Received(@, body, env, seen, now, pd, pa)]
           /\ seen' = SeenAfter(seen, eventId, now)
           /\ lastDeliv' = IF Truthy(eventId)
                           THEN [lastDeliv EXCEPT ![eventId] = now] ELSE lastDeliv
           /\ lastAcc' = IF Truthy(eventId) /\ ~isDuplicate(seen, eventId, now)
                         THEN [lastAcc EXCEPT ![eventId] = now] ELSE lastAcc
    /\ notifs' = notifs + 1
    /\ UNCHANGED <<now, env, bookings, store, changes, escIn, escOut>>

\* a notification arrives, while the run still has notifications to deliver
WebhookReceive(h, body) ==
    /\ notifs < MaxNotifs
    /\ Deliver(h, body)

\* a router that fetches the booking once more when the fetch fails
RouterFetchReturn_Retry(h) ==
    /\ hs[h].pc = "router_fetch"
    /\ \/ hs' = [hs EXCEPT ![h] =
                 IF @.fetchB < 2 THEN [@ EXCEPT !.fetchB = @ + 1]
                 ELSE Catch(@, "router_fetch")]
       \/ LET b == bookings[hs[h].bookingId]
          IN  hs' = [hs EXCEPT ![h] =
                 IF isCancelled(b.shape)
                 THEN [@ EXCEPT !.cls = "cancelled", !.routedRev = b.rev,
                                !.uid = UidOf(hs[h].bookingId),
                                !.cancelEmail = CancelShouldEmail(env),
                                !.pc = "cancel_fetch", !.fetchB = @ + 1]
                 ELSE [@ EXCEPT !.cls = "active", !.routedRev = b.rev,
                                !.pc = "booking_fetch", !.fetchB = @ + 1]]
    /\ UNCHANGED <<seen, now, env, bookings, store, notifs, changes, lastDeliv, lastAcc, escIn, escOut>>

\* processBookingRouter: fetchBooking returns or throws; classify; enter
\* processCancellation or processBooking up to its own fetchBooking.
RouterFetchReturn(h) ==
    /\ hs[h].pc = "router_fetch"
    /\ \/ hs' = [hs EXCEPT ![h] = Catch(@, "router_fetch")]
       \/ LET b == bookings[hs[h].bookingId]
          IN  hs' = [hs EXCEPT ![h] =
                 IF isCancelled(b.shape)
                 THEN [@ EXCEPT !.cls = "cancelled", !.routedRev = b.rev,
                                !.uid = UidOf(hs[h].bookingId),
                                !.cancelEmail = CancelShouldEmail(env),
                                !.pc = "cancel_fetch", !.fetchB = @ + 1]
                 ELSE [@ EXCEPT !.cls = "active", !.routedRev = b.rev,
                                !.pc = "booking_fetch", !.fetchB = @ + 1]]
    /\ UNCHANGED <<seen, now, env, bookings, store, notifs, changes, lastDeliv, lastAcc, escIn, escOut>>

\* processBooking: fetchBooking returns or throws
BookingFetchReturn(h) ==
    /\ hs[h].pc = "booking_fetch"
    /\ \/ hs' = [hs EXCEPT ![h] = Catch(@, "booking_fetch")]
       \/ LET b == bookings[hs[h].bookingId]
          IN  hs' = [hs EXCEPT ![h] =
                 IF Truthy(b.shape.customer_id)
                 THEN [@ EXCEPT !.bookingRev = b.rev, !.projected = Classification(b.shape),
                                !.pc = "booking_customer", !.fetchC = @ + 1]
                 ELSE AfterCustomer([@ EXCEPT !.bookingRev = b.rev,
                                              !.projected = Classification(b.shape)],
                                    env, b.rev, <<>>, <<>>, <<"TBD">>, <<>>, now)]
    /\ UNCHANGED <<seen, now, env, bookings, store, notifs, changes, lastDeliv, lastAcc, escIn, escOut>>

\* processBooking: fetchCustomer returns a customer, returns none, or throws
BookingCustomerReturn(h) ==
    /\ hs[h].pc = "booking_customer"
    /\ \/ hs' = [hs EXCEPT ![h] =
                 AfterCustomer([@ EXCEPT !.customer = "ok"], env, hs[h].bookingRev,
                               TheCustomer.given_name, TheCustomer.family_name,
                               OrElse(TheCustomer.address, <<"TBD">>),
                               TheCustomer.phone_number, now)]
       \/ \E how \in {"missing", "threw"} :
            hs' = [hs EXCEPT ![h] =
                 AfterCustomer([@ EXCEPT !.customer = how], env, hs[h].bookingRev,
                               <<>>, <<>>, <<"TBD">>, <<>>, now)]
    /\ UNCHANGED <<seen, now, env, bookings, store, notifs, changes, lastDeliv, lastAcc, escIn, escOut>>

\* processBooking: transporter.sendMail resolves or rejects
BookingEmailReturn(h) ==
    /\ hs[h].pc = "booking_email"
    /\ \/ hs' = [hs EXCEPT ![h] = StartUpsert([@ EXCEPT !.mailSent = @ + 1])]
       \/ hs' = [hs EXCEPT ![h] = Catch(@, "email")]
    /\ UNCHANGED <<seen, now, env, bookings, store, notifs, changes, lastDeliv, lastAcc, escIn, escOut>>

\* upsertIcloudEvent: getIcloudCalendar resolves (the PUT is sent) or throws
UpsertDiscoverReturn(h) ==
    /\ hs[h].pc = "upsert_discover"
    /\ \/ hs' = [hs EXCEPT ![h] = [@ EXCEPT !.pc = "upsert_put", !.puts = @ + 1]]
       \/ hs' = [hs EXCEPT ![h] = Catch(@, "discover")]
    /\ UNCHANGED <<seen, now, env, bookings, store, notifs, changes, lastDeliv, lastAcc, escIn, escOut>>

\* a putIcsToIcloud that does not look at res.ok: an error status counts as
\* written
UpsertPutReturn_IgnoresStatus(h) ==
    /\ hs[h].pc = "upsert_put"
    /\ \/ /\ store' = [f \in DOMAIN store \cup {FilenameOf(hs[h].uid)} |->
                          IF f = FilenameOf(hs[h].uid) THEN hs[h].doc ELSE store[f]]
          /\ hs' = [hs EXCEPT ![h] = Ack([@ EXCEPT !.wrote = "put", !.status = 201])]
       \/ /\ hs' = [hs EXCEPT ![h] = Ack([@ EXCEPT !.wrote = "put", !.status = 201])]
          /\ UNCHANGED store
    /\ UNCHANGED <<seen, now, env, bookings, notifs, changes, lastDeliv, lastAcc, escIn, escOut>>

\* a PUT that creates the object but never overwrites one the store holds
UpsertPutReturn_CreateOnly(h) ==
    /\ hs[h].pc = "upsert_put"
    /\ \/ /\ store' = [f \in DOMAIN store \cup {FilenameOf(hs[h].uid)} |->
                          IF f \in DOMAIN store THEN store[f] ELSE hs[h].doc]
          /\ hs' = [hs EXCEPT ![h] = Ack([@ EXCEPT !.wrote = "put", !.status = 201])]
       \/ /\ hs' = [hs EXCEPT ![h] = Catch([@ EXCEPT !.status = 500], "put")]
          /\ UNCHANGED store
    /\ UNCHANGED <<seen, now, env, bookings, notifs, changes, lastDeliv, lastAcc, escIn, escOut>>

\* a handler that sends the email once the PUT is answered
UpsertPutReturn_ThenEmail(h) ==
    /\ hs[h].pc = "upsert_put"
    /\ \/ /\ store' = [f \in DOMAIN store \cup {FilenameOf(hs[h].uid)} |->
                          IF f = FilenameOf(hs[h].uid) THEN hs[h].doc ELSE store[f]]
          /\ hs' = [hs EXCEPT ![h] = [@ EXCEPT !.wrote = "put", !.status = 201,
                                               !.pc = "booking_email",
                                               !.mailCalls = @ + 1]]
       \/ /\ hs' = [hs EXCEPT ![h] = Catch([@ EXCEPT !.status = 500], "put")]
          /\ UNCHANGED store
    /\ UNCHANGED <<seen, now, env, bookings, notifs, changes, lastDeliv, lastAcc, escIn, escOut>>

\* putIcsToIcloud: the store serves the PUT, or answers with an error status
UpsertPutReturn(h) ==
    /\ hs[h].pc = "upsert_put"
    /\ \/ /\ store' = [f \in DOMAIN store \cup {FilenameOf(hs[h].uid)} |->
                          IF f = FilenameOf(hs[h].uid) THEN hs[h].doc ELSE store[f]]
          /\ hs' = [hs EXCEPT ![h] = Ack([@ EXCEPT !.wrote = "put", !.status = 201])]
       \/ /\ hs' = [hs EXCEPT ![h] = Catch([@ EXCEPT !.status = 500], "put")]
          /\ UNCHANGED store
    /\ UNCHANGED <<seen, now, env, bookings, notifs, changes, lastDeliv, lastAcc, escIn, escOut>>

\* processCancellation: the best-effort fetchBooking returns or throws
CancelFetchReturn(h) ==
    /\ hs[h].pc = "cancel_fetch"
    /\ \/ hs' = [hs EXCEPT ![h] = AfterEnrichment([@ EXCEPT !.refetch = "threw"], env)]
       \/ LET b == bookings[hs[h].bookingId]
          IN  hs' = [hs EXCEPT ![h] =
                 IF Truthy(b.shape.customer_id)
                 THEN [@ EXCEPT !.refetch = "ok", !.pc = "cancel_customer",
                                !.fetchC = @ + 1]
                 ELSE AfterEnrichment([@ EXCEPT !.refetch = "ok"], env)]
    /\ UNCHANGED <<seen, now, env, bookings, store, notifs, changes, lastDeliv, lastAcc, escIn, escOut>>

\* processCancellation: the best-effort fetchCustomer returns or throws
CancelCustomerReturn(h) ==
    /\ hs[h].pc = "cancel_customer"
    /\ \E how \in {"ok", "missing", "threw"} :
         hs' = [hs EXCEPT ![h] = AfterEnrichment([@ EXCEPT !.customer = how], env)]
    /\ UNCHANGED <<seen, now, env, bookings, store, notifs, changes, lastDeliv, lastAcc, escIn, escOut>>

\* processCancellation: transporter.sendMail resolves or rejects
CancelEmailReturn(h) ==
    /\ hs[h].pc = "cancel_email"
    /\ \/ hs' = [hs EXCEPT ![h] = StartDelete([@ EXCEPT !.mailSent = @ + 1])]
       \/ hs' = [hs EXCEPT ![h] = Catch(@, "email")]
    /\ UNCHANGED <<seen, now, env, bookings, store, notifs, changes, lastDeliv, lastAcc, escIn, escOut>>

\* deleteIcloudEvent: getIcloudCalendar resolves (the DELETE is sent) or throws
DeleteDiscoverReturn(h) ==
    /\ hs[h].pc = "delete_discover"
    /\ \/ hs' = [hs EXCEPT ![h] = [@ EXCEPT !.pc = "delete_request", !.dels = @ + 1]]
       \/ hs' = [hs EXCEPT ![h] = Catch(@, "discover")]
    /\ UNCHANGED <<seen, now, env, bookings, store, notifs, changes, lastDeliv, lastAcc, escIn, escOut>>

\* a delete that treats the not-found answer like any other error status
DeleteRequestReturn_NotFoundThrows(h) ==
    /\ hs[h].pc = "delete_request"
    /\ \/ /\ FilenameOf(hs[h].uid) \in DOMAIN store
          /\ store' = [f \in DOMAIN store \ {FilenameOf(hs[h].uid)} |-> store[f]]
          /\ hs' = [hs EXCEPT ![h] = Ack([@ EXCEPT !.wrote = "deleted", !.status = 204])]
       \/ /\ FilenameOf(hs[h].uid) \notin DOMAIN store
          /\ hs' = [hs EXCEPT ![h] = Catch([@ EXCEPT !.status = 404], "delete")]
          /\ UNCHANGED store
       \/ /\ hs' = [hs EXCEPT ![h] = Catch([@ EXCEPT !.status = 500], "delete")]
          /\ UNCHANGED store
    /\ UNCHANGED <<seen, now, env, bookings, notifs, changes, lastDeliv, lastAcc, escIn, escOut>>

\* deleteIcloudEvent: the store removes the object, answers 404 for an object
\* it does not hold, or answers with another error status
DeleteRequestReturn(h) ==
    /\ hs[h].pc = "delete_request"
    /\ \/ /\ FilenameOf(hs[h].uid) \in DOMAIN store
          /\ store' = [f \in DOMAIN store \ {FilenameOf(hs[h].uid)} |-> store[f]]
          /\ hs' = [hs EXCEPT ![h] = Ack([@ EXCEPT !.wrote = "deleted", !.status = 204])]
       \/ /\ FilenameOf(hs[h].uid) \notin DOMAIN store
          /\ hs' = [hs EXCEPT ![h] = Ack([@ EXCEPT !.wrote = "gone", !.status = 404])]
          /\ UNCHANGED store
       \/ /\ hs' = [hs EXCEPT ![h] = Catch([@ EXCEPT !.status = 500], "delete")]
          /\ UNCHANGED store
    /\ UNCHANGED <<seen, now, env, bookings, notifs, changes, lastDeliv, lastAcc, escIn, escOut>>

InFlight(h) == hs[h].pc \notin {"idle", "done"}

\* Time passes between notifications (the clock is read at intake and when a
\* document is stamped; later ticks are not observed)
ClockAdvance ==
    /\ \A h \in Handlers : ~InFlight(h)
    /\ now + TickMs <= MaxTicks * TickMs
    /\ now' = now + TickMs
    /\ UNCHANGED <<hs, seen, env, bookings, store, notifs, changes, lastDeliv, lastAcc, escIn, escOut>>

\* the clock advances while the run still has notifications to deliver
Tick ==
    /\ notifs < MaxNotifs
    /\ ClockAdvance

\* The booking service changes a booking (rescheduled, cancelled, ...)
ChangeBooking(b, shape) ==
    /\ changes < MaxChanges
    /\ notifs < MaxNotifs \/ \E h \in Handlers : InFlight(h)
    /\ shape # bookings[b].shape
    /\ bookings' = [bookings EXCEPT ![b] = [shape |-> shape, rev |-> @.rev + 1]]
    /\ changes' = changes + 1
    /\ UNCHANGED <<hs, seen, now, env, store, notifs, lastDeliv, lastAcc, escIn, escOut>>

HandlerStep(h) ==
    \/ RouterFetchReturn(h)
    \/ BookingFetchReturn(h)
    \/ BookingCustomerReturn(h)
    \/ BookingEmailReturn(h)
    \/ UpsertDiscoverReturn(h)
    \/ UpsertPutReturn(h)
    \/ CancelFetchReturn(h)
    \/ CancelCustomerReturn(h)
    \/ CancelEmailReturn(h)
    \/ DeleteDiscoverReturn(h)
    \/ DeleteRequestReturn(h)

\* Notifications handled one at a time (spec section 5): a notification is
\* delivered only when no earlier one is still being processed.
Next ==
    \/ \E body \in Bodies :
         /\ \A h \in Handlers : ~InFlight(h)
         /\ WebhookReceive("h1", body)
    \/ HandlerStep("h1")
    \/ Tick
    \/ \E b \in BookingIds, shape \in BookingShapes : ChangeBooking(b, shape)

Spec == Init /\ [][Next]_vars


\* Every external call eventually returns or throws: each awaited step of a
\* handler in flight is eventually taken.  The clock stands still here: no
\* step of a handler waits for it.
LiveNext ==
    \/ \E body \in Bodies :
         /\ \A h \in Handlers : ~InFlight(h)
         /\ WebhookReceive("h1", body)
    \/ HandlerStep("h1")
    \/ \E b \in BookingIds, shape \in BookingShapes : ChangeBooking(b, shape)

LiveSpec == Init /\ [][LiveNext]_vars /\ WF_vars(HandlerStep("h1"))

\* ------------------------------------------------------------------ claims

\* No calendar write, fetch or email was caused by this invocation.
NoSideEffects(r) ==
    /\ r.fetchB = 0 /\ r.fetchC = 0 /\ r.mailCalls = 0
    /\ r.upsertCalls = 0 /\ r.deleteCalls = 0 /\ r.puts = 0 /\ r.dels = 0

\* C1: every notification is answered exactly once, always with status 200,
\* whatever failed inside; a handler never answers while it is still
\* running, never answers twice, and, every external call returning or
\* throwing, a handler in flight always reaches its answer.
C1_AlwaysAcknowledged ==
    /\ [](\A h \in Handlers :
            /\ (hs[h].pc = "done" => hs[h].responses = <<200>>)
            /\ (hs[h].pc # "done" => hs[h].responses = <<>>))
    /\ \A h \in Handlers :
         (InFlight(h) ~> (hs[h].pc = "done" /\ hs[h].responses = <<200>>))

\* C1 witness: a handler whose calendar write failed has answered 200.
C1_Witness ==
    \E h \in Handlers :
        /\ hs[h].pc = "done" /\ hs[h].err \in {"put", "delete"}
        /\ hs[h].responses = <<200>>

\* C2: of two deliveries of one non-empty event id, one right after the
\* other, the first having opened the window: the second is suppressed
\* (no fetch, no email, no calendar write) when it comes within the TTL of
\* the first, and passes the gate when it comes after the TTL has elapsed.
C2_DedupWindow ==
    \A h \in Handlers :
        LET r == hs[h] IN
        (r.gate # "none" /\ Truthy(r.eventId) /\ r.prevDeliv # Never
            /\ r.prevAcc = r.prevDeliv) =>
            /\ (r.recvAt - r.prevDeliv <= DEDUPE_TTL_MS =>
                   r.gate = "dup" /\ NoSideEffects(r))
            /\ (r.recvAt - r.prevDeliv > DEDUPE_TTL_MS => r.gate = "pass")

\* C2 witness: a second delivery exactly TTL after the first is suppressed.
C2_Witness ==
    \E h \in Handlers :
        /\ hs[h].gate = "dup"
        /\ hs[h].prevAcc # Never
        /\ hs[h].recvAt - hs[h].prevAcc = DEDUPE_TTL_MS

\* a second delivery after the TTL is processed again
C2_WitnessAfter ==
    \E h \in Handlers :
        /\ hs[h].gate = "pass" /\ hs[h].prevAcc # Never /\ hs[h].fetchB > 0
        /\ hs[h].recvAt - hs[h].prevAcc > DEDUPE_TTL_MS


\* The document this invocation's booking and customer data project to.
ExpectedDoc(r) ==
    IF r.customer = "ok"
    THEN ProjectICS(r.bookingId, r.bookingRev, TheCustomer.given_name,
                    TheCustomer.family_name, TheCustomer.address,
                    TheCustomer.phone_number, r.recvAt)
    ELSE ProjectICS(r.bookingId, r.bookingRev, <<>>, <<>>, <<"TBD">>, <<>>, r.recvAt)

ObjectOf(bookingId) == FilenameOf(UidOf(bookingId))

ConcBodies ==
    { Body(T_booking_created, Absent, Absent, Absent, B1, Absent),
      Body(T_Booking_Cancelled, Absent, Absent, Absent, B1, Absent) }

ConcNext ==
    \/ \E h \in Handlers, body \in ConcBodies : WebhookReceive(h, body)
    \/ \E h \in Handlers : HandlerStep(h)
    \/ \E b \in BookingIds, shape \in BookingShapes : ChangeBooking(b, shape)

ConcSpec == Init /\ [][ConcNext]_vars

\* C4: once all handlers for a booking have finished, none of them having
\* failed and one of them having seen the booking's latest state, the object
\* is absent if the booking's latest status is Cancelled and present if it is
\* Active, however the handlers interleaved.
C4_Convergence ==
    \A b \in BookingIds :
        LET finished == {h \in Handlers : hs[h].pc = "done" /\ hs[h].bookingId = b} IN
        ( /\ \A h \in Handlers : ~InFlight(h)
          /\ \A h \in finished : hs[h].err = "none" /\ hs[h].wrote # "none"
          /\ \E h \in finished : hs[h].routedRev = bookings[b].rev )
        => (isCancelled(bookings[b].shape) <=> ObjectOf(b) \notin DOMAIN store)

\* C5: a classified-Cancelled notification ends with one delete issued for
\* the booking's uid and no upsert.
C5_CancelledIssuesDelete ==
    \A h \in Handlers :
        LET r == hs[h] IN
        (r.pc = "done" /\ r.cls = "cancelled") =>
            /\ r.deleteCalls = 1 /\ r.upsertCalls = 0
            /\ r.uid = UidOf(r.bookingId)

\* C7: on the active path a customer fetch that throws or returns nothing
\* still ends with the default record projected and its upsert issued.
C7_CustomerFailureNeverBlocks ==
    \A h \in Handlers :
        LET r == hs[h] IN
        (r.pc = "done" /\ r.cls = "active" /\ r.customer \in {"missing", "threw"}) =>
            /\ r.upsertCalls = 1
            /\ r.doc = ProjectICS(r.bookingId, r.bookingRev, <<>>, <<>>, <<"TBD">>,
                                  <<>>, r.recvAt)

\* C8: a booking fetch that fails in processBookingRouter or in processBooking
\* ends the notification: no PUT, no DELETE, no email, no further booking
\* fetch, and the notification is acknowledged.
C8_BookingFetchFailureIsFatal ==
    \A h \in Handlers :
        LET r == hs[h] IN
        (r.err \in {"router_fetch", "booking_fetch"}) =>
            /\ r.pc = "done" /\ r.responses = <<200>>
            /\ r.upsertCalls = 0 /\ r.deleteCalls = 0 /\ r.puts = 0 /\ r.dels = 0
            /\ r.mailCalls = 0 /\ r.mailSent = 0
            /\ r.fetchB = (IF r.err = "router_fetch" THEN 1 ELSE 2)
            /\ r.wrote = "none"

\* C8 witness: processBooking's own booking fetch failed after the router's succeeded.
C8_Witness ==
    \E h \in Handlers :
        /\ hs[h].pc = "done" /\ hs[h].err = "booking_fetch" /\ hs[h].cls = "active"

\* C9: once processCancellation has started, a failed re-fetch or customer
\* fetch still ends with the delete issued.
C9_EnrichmentFailureStillDeletes ==
    \A h \in Handlers :
        LET r == hs[h] IN
        (r.pc = "done" /\ r.cls = "cancelled"
            /\ (r.refetch = "threw" \/ r.customer \in {"missing", "threw"})) =>
            r.deleteCalls = 1

\* C10: every notification that reached the email step, whatever the email
\* transport did, ends with its calendar write issued.
C10_EmailNeverBlocksWrite ==
    \A h \in Handlers :
        LET r == hs[h] IN
        (r.pc = "done" /\ r.mailCalls > 0) =>
            /\ (r.cls = "active" => r.upsertCalls = 1)
            /\ (r.cls = "cancelled" => r.deleteCalls = 1)


\* --------------------------------------------------------- the classifier
\* Booking records of every shape the classifier looks at: the status in
\* either field and in any letter case, with and without the cancellation
\* timestamp (in either spelling) and the cancellation reason.
ClassifyStatuses ==
    { Absent, T_ACCEPTED, T_CANCELLED_BY_CUSTOMER, T_canceled, T_NO_SHOW,
      <<"n","o","_","s","h","o","w">>,
      <<"N","O","_","S","H","O","W","S">>,
      <<"P","r","e","C","a","n","c","e","l">>,
      <<"C","A","N","C","E">>,
      <<"D","E","C","L","I","N","E","D">> }

ClassifyShapes ==
    { RawBooking(st, bst, ca, cla, cr, C1id) :
        st \in ClassifyStatuses, bst \in {Absent, T_canceled, T_ACCEPTED},
        ca \in {Absent, T_stamp}, cla \in {Absent, T_stamp}, cr \in {Absent, T_reason} }

ClassifyInit ==
    /\ hs = [h \in Handlers |-> IdleHandler]
    /\ seen = EmptyMap
    /\ now = 0
    /\ env \in EnvConfigs
    /\ bookings \in [BookingIds -> [shape : ClassifyShapes, rev : {0}]]
    /\ store = EmptyMap
    /\ notifs = 0
    /\ changes = 0
    /\ lastDeliv = [e \in EventIds \ {Absent} |-> Never]
    /\ lastAcc = [e \in EventIds \ {Absent} |-> Never]
    /\ escIn = <<>>
    /\ escOut = NotEscaped

ClassifyNext ==
    \/ /\ \A h \in Handlers : ~InFlight(h)
       /\ WebhookReceive("h1", Body(T_booking_created, Absent, Absent, Absent, B1, Absent))
    \/ HandlerStep("h1")

ClassifySpec == ClassifyInit /\ [][ClassifyNext]_vars

\* the text contains CANCEL whatever the case of its letters
ContainsCancel(text) ==
    \E i \in 0..(Len(text) - Len(T_CANCEL)) :
        \A j \in 1..Len(T_CANCEL) : LowerChar(text[i + j]) = LowerChar(T_CANCEL[j])

\* the text is the no-show marker (read as the router reads it, after case folding)
IsNoShow(text) ==
    /\ Len(text) = Len(T_NO_SHOW)
    /\ \A j \in 1..Len(text) : LowerChar(text[j]) = LowerChar(T_NO_SHOW[j])

\* the four conditions of the classification, on the record the service holds
CancelledAsSpecified(b) ==
    LET text == IF b.status # <<>> THEN b.status ELSE b.booking_status IN
    \/ ContainsCancel(text)
    \/ IsNoShow(text)
    \/ b.canceled_at # <<>> \/ b.cancelled_at # <<>>
    \/ b.cancellation_reason # <<>>

CancelPath == {"cancel_fetch", "cancel_customer", "cancel_email",
               "delete_discover", "delete_request"}
ActivePath == {"booking_fetch", "booking_customer", "booking_email",
               "upsert_discover", "upsert_put"}

B2 == <<"B","2">>
SyncBookingIds == {B1, B2}

\* a document an earlier run left in the store
PriorDoc(bookingId) ==
    ProjectICS(bookingId, 0, <<>>, <<>>, <<"Old Town">>, <<>>, 0)

InitialStores ==
    { [f \in {FilenameOf(UidOf(b)) : b \in held} |->
          PriorDoc(CHOOSE b \in held : FilenameOf(UidOf(b)) = f)] :
      held \in SUBSET SyncBookingIds }

SyncBodies == { Body(T_booking_created, Absent, Absent, Absent, b, Absent) : b \in SyncBookingIds }

SyncInit ==
    /\ hs = [h \in Handlers |-> IdleHandler]
    /\ seen = EmptyMap
    /\ now = 0
    /\ env \in EnvConfigs
    /\ bookings \in [SyncBookingIds -> [shape : BookingShapes, rev : {0}]]
    /\ store \in InitialStores
    /\ notifs = 0
    /\ changes = 0
    /\ lastDeliv = [e \in EventIds \ {Absent} |-> Never]
    /\ lastAcc = [e \in EventIds \ {Absent} |-> Never]
    /\ escIn = <<>>
    /\ escOut = NotEscaped

SyncNext ==
    \/ \E body \in SyncBodies :
         /\ hs["h1"].pc = "idle"
         /\ WebhookReceive("h1", body)
    \/ \E body \in SyncBodies :
         /\ hs["h1"].pc = "done" /\ hs["h2"].pc = "idle"
         /\ WebhookReceive("h2", body)
    \/ \E h \in Handlers : HandlerStep(h)
    \/ \E b \in SyncBookingIds, shape \in BookingShapes :
         /\ \A h \in Handlers : ~InFlight(h)
         /\ ChangeBooking(b, shape)

SyncSpec == SyncInit /\ [][SyncNext]_vars

\* the objects of the store whose document carries this uid
ObjectsFor(uid) == {f \in DOMAIN store : store[f].uid = uid}

\* C11: when upsertIcloudEvent has been called and served twice for the same
\* uid, whatever the store held before, the store holds exactly one object for
\* that uid, named <uid>.ics, and its content is the document of the second call.
C11_UpsertIdempotent ==
    LET first == hs["h1"]
        second == hs["h2"]
    IN  (/\ first.pc = "done" /\ first.wrote = "put"
         /\ second.pc = "done" /\ second.wrote = "put"
         /\ first.uid = second.uid) =>
            /\ ObjectsFor(second.uid) = {second.uid \o T_dot_ics}
            /\ store[second.uid \o T_dot_ics] = second.doc

\* C11 witness: two served upserts for one uid with different documents
C11_Witness ==
    /\ hs["h1"].pc = "done" /\ hs["h1"].wrote = "put"
    /\ hs["h2"].pc = "done" /\ hs["h2"].wrote = "put"
    /\ hs["h1"].uid = hs["h2"].uid
    /\ hs["h1"].doc # hs["h2"].doc

\* a delete call of this handler is answered in this step
DeleteAnswered(h) == hs[h].pc = "delete_request" /\ hs'[h].pc = "done"

\* C12, one delete call: a call for an object the store does not hold, when
\* the store answers it (no server error), returns without error and leaves
\* the store as it was; a call that returns without error leaves no object
\* under <uid>.ics; no call touches an object of another name.
C12_DeleteCall ==
    \A h \in Handlers :
        DeleteAnswered(h) =>
            LET f == hs[h].uid \o T_dot_ics IN
            /\ (f \notin DOMAIN store /\ hs'[h].status # 500) =>
                   (hs'[h].err = "none" /\ store' = store)
            /\ hs'[h].err = "none" => f \notin DOMAIN store'
            /\ \A g \in (DOMAIN store \cup DOMAIN store') \ {f} :
                   g \in DOMAIN store /\ g \in DOMAIN store' /\ store'[g] = store[g]

\* C12, two delete calls: after a delete that returned without error, a second
\* delete for the same uid that the store answers finds nothing (404), returns
\* without error like the first, and the object is still absent.
C12_DeleteTwice ==
    LET first == hs["h1"]
        second == hs["h2"]
    IN  (/\ first.pc = "done" /\ first.wrote \in {"deleted", "gone"}
         /\ second.pc = "done" /\ second.dels = 1 /\ second.status # 500
         /\ first.uid = second.uid) =>
            /\ second.err = "none" /\ second.status = 404
            /\ (second.uid \o T_dot_ics) \notin DOMAIN store

\* C12: deleteIcloudEvent tolerates a missing object, deleting twice is the
\* same as deleting once, and a delete touches no other object.
C12_TolerantDelete == [][C12_DeleteCall]_vars /\ []C12_DeleteTwice

\* C12 witness: the first delete removed the object, the second one for the
\* same uid was answered not-found, and the other booking's object is still there
C12_Witness ==
    /\ hs["h1"].pc = "done" /\ hs["h1"].wrote = "deleted"
    /\ hs["h2"].pc = "done" /\ hs["h2"].status = 404 /\ hs["h2"].err = "none"
    /\ hs["h1"].uid = hs["h2"].uid
    /\ \E f \in DOMAIN store : f # hs["h1"].uid \o T_dot_ics

\* the two texts are equal up to the case of their letters
SameIgnoringCase(a, b) ==
    /\ Len(a) = Len(b)
    /\ \A j \in 1..Len(a) : LowerChar(a[j]) = LowerChar(b[j])

\* the event kinds the contract names, in any letter case
KindAsSpecified(eventType) ==
    \E k \in {T_booking_created, T_booking_updated, T_booking_canceled, T_booking_cancelled} :
        SameIgnoringCase(eventType, k)

\* C13: a notification that passed the gate with a usable booking id is
\* processed (its booking fetched) exactly when its kind is one of
\* booking.created / updated / canceled / cancelled in any letter case; with
\* any other kind it causes no fetch, email, PUT or DELETE and is answered 200.
C13_KindsRecognized ==
    \A h \in Handlers :
        LET r == hs[h] IN
        (r.gate = "pass" /\ r.bookingId # <<>> /\ ~startsWith(r.bookingId, T_TEST)) =>
            /\ KindAsSpecified(r.eventType) <=> r.fetchB >= 1
            /\ ~KindAsSpecified(r.eventType) =>
                   /\ NoSideEffects(r) /\ r.cls = "none"
                   /\ r.pc = "done" /\ r.responses = <<200>>

\* C13 witness: a notification of an unrecognized kind for a usable booking id
\* was acknowledged without any effect
C13_Witness ==
    \E h \in Handlers :
        /\ hs[h].pc = "done" /\ hs[h].gate = "pass" /\ hs[h].bookingId = B1
        /\ hs[h].eventType = T_invoice_paid
        /\ NoSideEffects(hs[h]) /\ hs[h].responses = <<200>>
        /\ hs[h].wrote = "none" /\ store = EmptyMap

\* the name the contract gives the calendar object of a booking
NameAsSpecified(bookingId) == bookingId \o T_at_lilsicecream \o T_dot_ics

C14_WitnessOther ==
    /\ hs["h1"].pc = "done" /\ hs["h1"].wrote = "put"
    /\ hs["h2"].pc = "done" /\ hs["h2"].wrote \in {"deleted", "gone"}
    /\ hs["h1"].bookingId # hs["h2"].bookingId
    /\ NameAsSpecified(hs["h1"].bookingId) \in DOMAIN store

\* ------------------------------------------------------------ text escaping
\* icsEscape applied to a free-text field: the field is any text of at most
\* MaxLen characters over an alphabet with the characters icsEscape rewrites,
\* the carriage return, and two plain letters.
MaxLen == 3

BS == "\\"
LF == "\n"
CR == "\r"
EscapeAlphabet == {"a", "n", BS, ";", ",", LF, CR}
EscapeTexts == UNION {[1..n -> EscapeAlphabet] : n \in 0..MaxLen}

\* s.replace(/c/g, rep) for a single-character pattern
RECURSIVE ReplaceAll(_, _, _)
ReplaceAll(s, c, rep) ==
    IF s = <<>> THEN <<>>
    ELSE (IF Head(s) = c THEN rep ELSE <<Head(s)>>) \o ReplaceAll(Tail(s), c, rep)

\* s.replace(/\r?\n/g, '\\n')
RECURSIVE ReplaceLineBreaks(_)
ReplaceLineBreaks(s) ==
    IF s = <<>> THEN <<>>
    ELSE IF Len(s) >= 2 /\ s[1] = CR /\ s[2] = LF
    THEN <<BS, "n">> \o ReplaceLineBreaks(SubSeq(s, 3, Len(s)))
    ELSE IF Head(s) = LF
    THEN <<BS, "n">> \o ReplaceLineBreaks(Tail(s))
    ELSE <<Head(s)>> \o ReplaceLineBreaks(Tail(s))

\* an escaping that rewrites the backslash after the semicolon and the comma
icsEscape_BackslashLast(s) ==
    ReplaceLineBreaks(
        ReplaceAll(ReplaceAll(ReplaceAll(s, ";", <<BS, ";">>), ",", <<BS, ",">>),
                   BS, <<BS, BS>>))

icsEscape(s) ==
    ReplaceLineBreaks(
        ReplaceAll(ReplaceAll(ReplaceAll(s, BS, <<BS, BS>>), ";", <<BS, ";">>),
                   ",", <<BS, ",">>))

EscapeInit ==
    /\ hs = [h \in Handlers |-> IdleHandler]
    /\ seen = EmptyMap
    /\ now = 0
    /\ env \in EnvConfigs
    /\ bookings = [b \in BookingIds |-> [shape |-> InitialShape, rev |-> 0]]
    /\ store = EmptyMap
    /\ notifs = 0
    /\ changes = 0
    /\ lastDeliv = [e \in EventIds \ {Absent} |-> Never]
    /\ lastAcc = [e \in EventIds \ {Absent} |-> Never]
    /\ escIn \in EscapeTexts
    /\ escOut = NotEscaped

\* buildICS escapes a field
Escape ==
    /\ ~escOut.done
    /\ escOut' = [done |-> TRUE, out |-> icsEscape(escIn)]
    /\ UNCHANGED <<hs, seen, now, env, bookings, store, notifs, changes, lastDeliv,
                   lastAcc, escIn>>

EscapeNext == Escape

EscapeSpec == EscapeInit /\ [][EscapeNext]_vars

\* the inverse unescaping, read left to right
RECURSIVE icsUnescape(_)
icsUnescape(s) ==
    IF s = <<>> THEN <<>>
    ELSE IF Head(s) = BS /\ Len(s) >= 2 /\ s[2] \in {BS, ";", ",", "n"}
    THEN <<IF s[2] = "n" THEN LF ELSE s[2]>> \o icsUnescape(SubSeq(s, 3, Len(s)))
    ELSE <<Head(s)>> \o icsUnescape(Tail(s))

\* the text with every CRLF line break written as LF
RECURSIVE LineBreaksAsLF(_)
LineBreaksAsLF(s) ==
    IF s = <<>> THEN <<>>
    ELSE IF Len(s) >= 2 /\ s[1] = CR /\ s[2] = LF
    THEN <<LF>> \o LineBreaksAsLF(SubSeq(s, 3, Len(s)))
    ELSE <<Head(s)>> \o LineBreaksAsLF(Tail(s))

\* C15 as stated: unescaping what icsEscape returned gives back exactly the
\* text, for every text over backslash, semicolon, comma, LF and CR.
C15_RoundTripAsStated ==
    escOut.done => icsUnescape(escOut.out) = escIn

\* C15 amended: unescaping what icsEscape returned gives back the text with
\* every CRLF line break turned into LF, hence exactly the text when it holds
\* no CRLF.
C15_RoundTripUpToLineBreaks ==
    escOut.done =>
        /\ icsUnescape(escOut.out) = LineBreaksAsLF(escIn)
        /\ (\A i \in 1..(Len(escIn) - 1) : ~(escIn[i] = CR /\ escIn[i + 1] = LF)) =>
               icsUnescape(escOut.out) = escIn

\* C15 witness: a text with a backslash, a separator and a line break was escaped
C15_Witness ==
    /\ escOut.done
    /\ escIn = <<BS, ";", LF>>
    /\ escOut.out = <<BS, BS, BS, ";", BS, "n">>

\* ------------------------------------------------------- the de-dupe window
\* Redeliveries of one event id: up to MaxDeliveries notifications that carry
\* the event id E1, handled one at a time in either slot, the clock advancing
\* between them.  Some of them are processed, others are ignored at intake.
MaxDeliveries == 3

DedupBodies ==
    { Body(T_booking_created, Absent, E1, Absent, B1, Absent),
      Body(T_booking_created, Absent, E1, Absent, Absent, Absent),
      Body(T_booking_created, Absent, E1, Absent, TEST1, Absent),
      Body(T_invoice_paid, Absent, E1, Absent, B1, Absent) }

DedupInit ==
    /\ hs = [h \in Handlers |-> IdleHandler]
    /\ seen = EmptyMap
    /\ now = 0
    /\ env \in EnvConfigs
    /\ bookings \in [BookingIds -> [shape : BookingShapes, rev : {0}]]
    /\ store = EmptyMap
    /\ notifs = 0
    /\ changes = 0
    /\ lastDeliv = [e \in EventIds \ {Absent} |-> Never]
    /\ lastAcc = [e \in EventIds \ {Absent} |-> Never]
    /\ escIn = <<>>
    /\ escOut = NotEscaped

DedupNext ==
    \/ \E h \in Handlers, body \in DedupBodies :
         /\ \A g \in Handlers : ~InFlight(g)
         /\ notifs < MaxDeliveries
         /\ Deliver(h, body)
    \/ \E h \in Handlers : HandlerStep(h)
    \/ /\ notifs < MaxDeliveries
       /\ ClockAdvance

DedupSpec == DedupInit /\ [][DedupNext]_vars

\* C16: a delivery of an event id is suppressed exactly when it arrives no
\* later than TTL after the latest accepted delivery of that id, however many
\* duplicates arrived since; and every entry of the table expires TTL after the
\* accepted delivery that inserted it (a duplicate hit leaves it unchanged).
C16_WindowNotExtended ==
    /\ \A h \in Handlers :
           LET r == hs[h] IN
           (r.gate # "none" /\ r.eventId # <<>>) =>
               (r.gate = "dup" <=>
                    (r.prevAcc # Never /\ r.recvAt <= r.prevAcc + 10 * 60 * 1000))
    /\ \A e \in DOMAIN seen :
           lastAcc[e] # Never /\ seen[e] = lastAcc[e] + 10 * 60 * 1000

\* C16 witness: an id accepted, then delivered again as a duplicate, is
\* accepted at the first delivery after the accepted one's TTL although that
\* delivery is within TTL of the duplicate
C16_Witness ==
    \E h \in Handlers :
        /\ hs[h].gate = "pass" /\ hs[h].eventId = E1
        /\ hs[h].prevAcc # Never /\ hs[h].prevDeliv > hs[h].prevAcc
        /\ hs[h].prevDeliv <= hs[h].prevAcc + 10 * 60 * 1000
        /\ hs[h].recvAt > hs[h].prevAcc + 10 * 60 * 1000
        /\ hs[h].recvAt <= hs[h].prevDeliv + 10 * 60 * 1000
        /\ seen[E1] = hs[h].recvAt + 10 * 60 * 1000

\* the activation value of an optional flag: the text true in any letter case
ExplicitlyEnabled(flag) == SameIgnoringCase(flag, T_true)

\* C17 as stated: a notification on the active path whose booking data reached
\* the projection calls the email side channel exactly when its kind is
\* booking.created in any letter case, or booking.updated in any letter case
\* with SEND_EMAIL_ON_UPDATED explicitly enabled.
C17_EmailPolicy ==
    \A h \in Handlers :
        LET r == hs[h] IN
        (r.cls = "active" /\ r.doc # NoDoc) =>
            (r.mailCalls = 1 <=>
                 \/ SameIgnoringCase(r.eventType, T_booking_created)
                 \/ /\ SameIgnoringCase(r.eventType, T_booking_updated)
                    /\ ExplicitlyEnabled(env.SEND_EMAIL_ON_UPDATED))

\* C18: a notification issues at most one calendar write, a PUT or a DELETE,
\* never both and never two of the same; and the write is its last external
\* call: while or after the write is out, the handler awaits nothing but the
\* write's answer, and the booking fetches, the customer fetch and the email
\* all came before it.
C18_AtMostOneWrite ==
    \A h \in Handlers :
        LET r == hs[h] IN
        /\ r.puts + r.dels <= 1
        /\ r.upsertCalls + r.deleteCalls <= 1
        /\ r.puts <= r.upsertCalls /\ r.dels <= r.deleteCalls
        /\ r.upsertCalls + r.deleteCalls = 1 =>
               /\ r.pc \in {"upsert_discover", "upsert_put",
                            "delete_discover", "delete_request", "done"}
               /\ r.fetchB = 2
               /\ r.fetchC <= 1 /\ (r.fetchC = 1 => r.customer # "none")
               /\ r.mailCalls <= 1

\* C18 witness: a notification that fetched the booking twice and the customer
\* and called the email side channel has its single PUT answered
C18_Witness ==
    \E h \in Handlers :
        /\ hs[h].pc = "done" /\ hs[h].wrote = "put"
        /\ hs[h].puts = 1 /\ hs[h].dels = 0
        /\ hs[h].fetchB = 2 /\ hs[h].fetchC = 1 /\ hs[h].mailSent = 1

\* C19 as stated: the document an active-path notification hands to the
\* calendar for writing is projected from a booking snapshot that classifies as
\* Active, like the snapshot the router classified: a booking that is Cancelled
\* when its data is projected is never written.
C19_ProjectedSnapshotActive ==
    \A h \in Handlers :
        LET r == hs[h] IN
        (r.cls = "active" /\ r.upsertCalls = 1) => r.projected = "active"

\* the handler ignored the notification at intake or failed while processing it
IgnoredOrFailed(r) ==
    /\ r.pc = "done" /\ r.gate = "pass"
    /\ \/ r.bookingId = <<>>
       \/ startsWith(r.bookingId, T_TEST)
       \/ ~KindAsSpecified(r.eventType)
       \/ r.err # "none"

\* C20: from intake on, whatever the handler then does with the notification
\* (nothing, a fetch in flight, a failure), the event id of the latest accepted
\* delivery is in the table with expiry TTL after that delivery for as long as
\* the clock is within the TTL; and a delivery of the same event id within TTL
\* of an accepted one is suppressed without any effect, also when the accepted
\* one was ignored or failed.
C20_RecordedAtIntake ==
    /\ \A h \in Handlers :
           LET r == hs[h] IN
           (/\ r.gate = "pass" /\ r.eventId # <<>>
            /\ lastAcc[r.eventId] = r.recvAt
            /\ now <= r.recvAt + 10 * 60 * 1000) =>
               /\ r.eventId \in DOMAIN seen
               /\ seen[r.eventId] = r.recvAt + 10 * 60 * 1000
    /\ \A g \in Handlers, h \in Handlers :
           (/\ g # h
            /\ hs[g].gate = "pass" /\ hs[g].eventId # <<>>
            /\ hs[h].gate # "none" /\ hs[h].eventId = hs[g].eventId
            /\ hs[h].prevAcc = hs[g].recvAt
            /\ hs[h].recvAt <= hs[g].recvAt + 10 * 60 * 1000) =>
               /\ hs[h].gate = "dup"
               /\ NoSideEffects(hs[h]) /\ hs[h].responses = <<200>>

\* C20 witness: a processable redelivery was suppressed because an ignored
\* notification (TEST booking id) had recorded the event id
C20_Witness ==
    \E g \in Handlers, h \in Handlers :
        /\ g # h
        /\ IgnoredOrFailed(hs[g]) /\ startsWith(hs[g].bookingId, T_TEST)
        /\ hs[g].eventId = E1 /\ hs[h].eventId = E1
        /\ hs[h].prevAcc = hs[g].recvAt /\ hs[h].gate = "dup"
        /\ hs[h].bookingId = B1 /\ hs[h].eventType = T_booking_created
        /\ hs[h].recvAt > hs[g].recvAt

\* C20 witness of the other case: the redelivery was suppressed after the
\* accepted notification's processing failed
C20_WitnessFailed ==
    \E g \in Handlers, h \in Handlers :
        /\ g # h
        /\ hs[g].pc = "done" /\ hs[g].gate = "pass" /\ hs[g].err # "none"
        /\ hs[g].eventId = E1 /\ hs[h].eventId = E1
        /\ hs[h].prevAcc = hs[g].recvAt /\ hs[h].gate = "dup"

\* ------------------------------------------------------ one notification
\* A single notification with any of the request bodies, for a booking in any
\* of its shapes: what one run of the handler does.
IntakeInit == DedupInit

IntakeNext ==
    \/ \E body \in Bodies :
         /\ hs["h1"].pc = "idle"
         /\ WebhookReceive("h1", body)
    \/ HandlerStep("h1")

IntakeSpec == IntakeInit /\ [][IntakeNext]_vars

====
